---- MODULE Spec2Model ----
(***************************************************************************)
(* Model of elabal/email-visual-tester:                                    *)
(*   - globalSetup and EmailOnAcidService.getPreviewUrls                   *)
(*     (src/src/global-setup.ts), followed by the loading of the test      *)
(*     file (src/tests/blueprint.spec.ts)                                  *)
(*   - getFullEmailOnAcidResults (src/get-full-eoa-results.ts)             *)
(*   - getHtmlFromPayload (src/tests/blueprint.spec.ts)                    *)
(* One behaviour is one run of one of the programs against an arbitrary    *)
(* external service and environment.                                       *)
(***************************************************************************)
EXTENDS Integers, Sequences, FiniteSets, TLC

(***************************************************************************)
(* Bounds of the model.                                                    *)
(***************************************************************************)
\* number of distinct non-empty screenshot URL strings the service may send
MaxUrls == 2
\* longest results array of a full-results response
MaxResults == 2
\* largest number of parts (the root included) of a message payload
MaxNodes == 4

(***************************************************************************)
(* Program constants.                                                      *)
(***************************************************************************)
MAX_POLLING_ATTEMPTS == 60
POLLING_INTERVAL_MS == 10000
FULL_MAX_POLLING_ATTEMPTS == 60
FULL_POLLING_INTERVAL_MS == 10000

(***************************************************************************)
(* JavaScript values that matter to the code: a value is a tagged record.  *)
(***************************************************************************)
Undefined == [t |-> "undefined", v |-> ""]
Str(s) == [t |-> "string", v |-> s]
NotAString == [t |-> "number", v |-> "42"]
Null == [t |-> "null", v |-> ""]

\* JavaScript truthiness of a value (used by `x && ...`, `!x`, `x || y`)
Truthy(x) ==
  CASE x.t = "undefined" -> FALSE
    [] x.t = "null" -> FALSE
    [] x.t = "string" -> x.v # ""
    [] x.t = "number" -> x.v # "0"
    [] OTHER -> TRUE

\* typeof x === 'string'
IsString(x) == x.t = "string"

(***************************************************************************)
(* The data the service exchanges with getPreviewUrls.                     *)
(***************************************************************************)
\* the client ids the service knows
Clients == {"applemail16_dm", "m365_w11_dm_dt"}

UrlStrings == {"https://eoa/shot" \o ToString(i) : i \in 1..MaxUrls}

\* the values screenshots.default may take: missing, "", a non-string, a URL
DefaultValues == {Undefined, Str(""), NotAString} \cup {Str(u) : u \in UrlStrings}

\* one client's entry of the results object
ClientResults ==
  {[status |-> "Complete", default |-> d, error_message |-> Undefined] : d \in DefaultValues}
  \cup {[status |-> "Failed", default |-> Undefined, error_message |-> Str("render error")],
        [status |-> "Bounced", default |-> Undefined, error_message |-> Str("mailbox full")],
        [status |-> "Processing", default |-> Undefined, error_message |-> Undefined]}

EmptyObject == [c \in {} |-> Undefined]

\* a results object: client id -> entry, for any subset of the clients
ResultObjects == UNION {[S -> ClientResults] : S \in SUBSET Clients}

\* what one status fetch of getPreviewUrls can come to
PreviewOutcomes ==
  {[kind |-> "ok", status |-> 200, hasData |-> TRUE, data |-> d] : d \in ResultObjects}
  \cup {[kind |-> "ok", status |-> 200, hasData |-> FALSE, data |-> EmptyObject]}
  \cup {[kind |-> "http", status |-> s, hasData |-> FALSE, data |-> EmptyObject] : s \in {404, 401, 500}}
  \cup {[kind |-> "network", status |-> 0, hasData |-> FALSE, data |-> EmptyObject]}

NoOutcome == [kind |-> "none", status |-> 0, hasData |-> FALSE, data |-> EmptyObject]

\* the ids of default-clients-eoa.json, in file order
DefaultClients == <<"applemail16_dm", "m365_w11_dm_dt">>

\* the emailClients argument: no client, the first one, or both
EmailClientLists == {SubSeq(DefaultClients, 1, n) : n \in 0..Len(DefaultClients)}

(***************************************************************************)
(* The environment of globalSetup.                                         *)
(***************************************************************************)
\* process.env and the input files, as far as globalSetup looks at them
Envs ==
  [taskName : BOOLEAN,                              \* TASK_NAME is set
   htmlFile : BOOLEAN,                              \* emails/<task>.html exists
   clientsFile : {"missing", "unparsable", "ok"},   \* default-clients-eoa.json
   service : {"", "emailonacid", "litmus"},         \* EMAIL_PREVIEW_SERVICE, lower-cased
   apiKey : BOOLEAN,                                \* <SERVICE>_API_KEY is set
   accountPassword : BOOLEAN]                       \* EMAILONACID_ACCOUNT_PASSWORD is set

\* the environment of the full-results script and of getHtmlFromPayload: not looked at
NoEnv == [taskName |-> FALSE, htmlFile |-> FALSE, clientsFile |-> "missing",
          service |-> "", apiKey |-> FALSE, accountPassword |-> FALSE]

\* variant: the account password is not required
CredentialsSetNoPassword(e) == e.service # "" /\ e.apiKey

\* !(!serviceToUse || !apiKey || !accountPassword)
CredentialsSet(e) == e.service # "" /\ e.apiKey /\ e.accountPassword

\* getEmailPreviewService returns a service instead of throwing
ServiceInitialises(e) == e.service = "emailonacid" /\ e.accountPassword

\* if (!existsSync(TEMP_DIR)) mkdirSync(TEMP_DIR); the same for ARCHIVE_DIR
MakeDirs(d) == [temp |-> TRUE, archive |-> TRUE]

\* globalSetup up to the call of injectHtml: how it goes on, and the directories
SetupChecks(e, d) ==
  IF ~e.taskName THEN [result |-> "return", dirs |-> d]
  ELSE IF ~e.htmlFile THEN [result |-> "throw", dirs |-> d]
  ELSE IF e.clientsFile # "ok" THEN [result |-> "throw", dirs |-> d]
  ELSE IF ~CredentialsSet(e) THEN [result |-> "throw", dirs |-> d]
  ELSE IF ~ServiceInitialises(e) THEN [result |-> "throw", dirs |-> MakeDirs(d)]
  ELSE [result |-> "call", dirs |-> MakeDirs(d)]

(***************************************************************************)
(* State.                                                                  *)
(***************************************************************************)
VARIABLES
  program,          \* which entry point runs: "globalSetup" or "getFullEmailOnAcidResults"
  pc,               \* position of the running program
  emailClients,     \* desiredApiClients, the emailClients argument of getPreviewUrls
  attempt,          \* loop counter of the polling loop
  extractedUrls,    \* getPreviewUrls: client id -> URL
  previewUrlsMap,   \* globalSetup: the value getPreviewUrls resolved to
  manifest,         \* GENERATED_URLS_FILE
  archive,          \* the archive copy
  fullApiResponse,  \* full-results script: last response body stored
  outputFile,       \* full-results script: outputJsonFilePath
  exitCode,         \* full-results script: process exit code (-1 while running)
  fetches,          \* number of status fetches issued so far
  gap,              \* number of waits since the last fetch
  gapMs,            \* milliseconds waited since the last fetch
  outcome,          \* outcome of the fetch of the running iteration: its kind and status,
                    \* and the whole of it once it has ended the loop (until getPreviewUrls
                    \* has handed over its result)
  finalSeenAt,      \* non-empty list: number of the first fetch whose response had every
                    \* listed client final (0: none)
  authFailAt,       \* number of the first fetch that failed with HTTP 401 (0: none)
  firstKeys,        \* empty list: key set of the first response that contained client keys
  allCompleteUrls,  \* non-empty list: client id -> screenshots.default of the first response
                    \* that had every listed client Complete with a string default
  env,              \* globalSetup: environment variables and input files of the run
  dirs,             \* globalSetup: which of TEMP_DIR and ARCHIVE_DIR exist
  injectCalls,      \* number of calls of previewService.injectHtml
  testId,           \* globalSetup: injectionResponse.id ("" until injectHtml resolved)
  tests,            \* what the test file registered with Playwright
  reportedNow,      \* client id -> the string screenshots.default that the response of the
                    \* running iteration reports for it with status Complete
  lastSuccess,      \* full-results script: body of the most recent successful fetch
  payload,          \* getHtmlFromPayload: the message part it is called with
  html              \* getHtmlFromPayload: what the call returned

vars == <<program, pc, emailClients, attempt, extractedUrls, previewUrlsMap, manifest,
          archive, fullApiResponse, outputFile, exitCode, fetches, gap, gapMs,
          outcome, finalSeenAt, authFailAt, firstKeys, allCompleteUrls,
          env, dirs, injectCalls, testId, tests, reportedNow, lastSuccess, payload, html>>

(***************************************************************************)
(* EmailOnAcidService.getPreviewUrls: the body of one polling attempt.     *)
(***************************************************************************)
\* const currentApiResults = response.data || {}
CurrentApiResults(o) == IF o.hasData THEN o.data ELSE EmptyObject

\* Object.keys(obj), as a list
RECURSIVE KeysOf(_)
KeysOf(S) ==
  IF S = {} THEN <<>>
  ELSE LET k == CHOOSE x \in S : TRUE IN <<k>> \o KeysOf(S \ {k})

ObjectKeys(obj) == KeysOf(DOMAIN obj)

\* variant: the keys of the response are monitored whatever the list
ClientsToMonitorAllKeys(list, results) == ObjectKeys(results)

\* emailClients && emailClients.length > 0 ? emailClients : Object.keys(currentApiResults)
ClientsToMonitor(list, results) ==
  IF Len(list) > 0 THEN list ELSE ObjectKeys(results)

\* the truthiness of currentApiResults[id]
HasResult(results, id) == id \in DOMAIN results

\* variant: only the type of the URL is tested, an empty string passes
HasValidUrlTypeOnly(clientResult) == IsString(clientResult.default)

\* clientResult.screenshots?.default && typeof clientResult.screenshots.default === 'string'
HasValidUrl(clientResult) ==
  Truthy(clientResult.default) /\ IsString(clientResult.default)

\* variant: Bounced is not counted as a final status
IsFinalStatusNoBounced(status) == status \in {"Complete", "Failed"}

\* status === 'Complete' || status === 'Failed' || status === 'Bounced'
IsFinalStatus(status) == status \in {"Complete", "Failed", "Bounced"}

\* the initial value of allTargetClientsProcessed after the empty-response test
InitiallyProcessed(results, toMonitor) ==
  ~(Len(ObjectKeys(results)) = 0 /\ Len(toMonitor) > 0)

\* variant: storing a URL drops the URLs of the other clients
StoreUrlAlone(urls, id, url) == (id :> url)

\* variant: a URL already stored is never replaced
StoreUrlKeepFirst(urls, id, url) == IF id \in DOMAIN urls THEN urls ELSE (id :> url) @@ urls

\* if (extractedUrls[id] !== url) extractedUrls[id] = url
StoreUrl(urls, id, url) == (id :> url) @@ urls

\* the for loop over clientsToMonitor: updates extractedUrls and allTargetClientsProcessed
RECURSIVE ProcessClients(_, _, _, _)
ProcessClients(results, toMonitor, urls, processed) ==
  IF toMonitor = <<>> THEN [urls |-> urls, processed |-> processed]
  ELSE
    LET id == Head(toMonitor)
        rest == Tail(toMonitor)
    IN IF ~HasResult(results, id)
       THEN ProcessClients(results, rest, urls, FALSE)
       ELSE LET clientResult == results[id] IN
         IF clientResult.status = "Complete"
         THEN IF HasValidUrl(clientResult)
              THEN ProcessClients(results, rest,
                                  StoreUrl(urls, id, clientResult.default.v), processed)
              ELSE ProcessClients(results, rest, urls, FALSE)
         ELSE IF clientResult.status = "Failed" \/ clientResult.status = "Bounced"
              THEN ProcessClients(results, rest, urls, processed)
              ELSE ProcessClients(results, rest, urls, FALSE)

\* clientsToMonitor.filter(id => clientData && final status).length
FinalizedTargetClientsCount(results, toMonitor) ==
  LET IsFinalized(id) == HasResult(results, id) /\ IsFinalStatus(results[id].status)
  IN Len(SelectSeq(toMonitor, IsFinalized))

\* if (finalizedTargetClientsCount === clientsToMonitor.length) break
AllFinalized(results, toMonitor) ==
  FinalizedTargetClientsCount(results, toMonitor) = Len(toMonitor)

\* variant: a 401 is retried like any other HTTP error
IsAuthFailureNever(o) == FALSE

\* variant: a 404 is fatal as well
IsAuthFailureOrNotFound(o) == o.kind = "http" /\ o.status \in {401, 404}

\* error.response.status === 401: the error is re-thrown
IsAuthFailure(o) == o.kind = "http" /\ o.status = 401

\* variant: the loop bound is off by one
LoopContinuesOffByOne(a) == a <= MAX_POLLING_ATTEMPTS

\* for (...; attempt < MAX_POLLING_ATTEMPTS; ...)
LoopContinues(a) == a < MAX_POLLING_ATTEMPTS

\* if (attempt < MAX_POLLING_ATTEMPTS - 1 && !allTargetClientsProcessed) await sleep
ShouldWait(a, processed) == a < MAX_POLLING_ATTEMPTS - 1 /\ ~processed

\* variant: linear backoff
SleepMsBackoff(a) == POLLING_INTERVAL_MS * (a + 1)

\* the duration of one sleep
SleepMs(a) == POLLING_INTERVAL_MS

\* one pass through the try/catch of the loop body for a given fetch outcome
AttemptResult(o, list, urls) ==
  IF o.kind = "ok"
  THEN LET currentApiResults == CurrentApiResults(o)
           clientsToMonitor == ClientsToMonitor(list, currentApiResults)
           scan == ProcessClients(currentApiResults, clientsToMonitor, urls,
                                  InitiallyProcessed(currentApiResults, clientsToMonitor))
       IN [urls |-> scan.urls, processed |-> scan.processed, throws |-> FALSE,
           breaks |-> AllFinalized(currentApiResults, clientsToMonitor)]
  ELSE IF IsAuthFailure(o)
       THEN [urls |-> urls, processed |-> TRUE, throws |-> TRUE, breaks |-> FALSE]
       ELSE [urls |-> urls, processed |-> FALSE, throws |-> FALSE, breaks |-> FALSE]

\* variant: a fresh map is returned instead of the URLs extracted so far
ResolvedEmpty(urls) == [assigned |-> TRUE, map |-> [c \in {} |-> ""]]

\* the record of the value getPreviewUrls resolves to
Resolved(urls) == [assigned |-> TRUE, map |-> urls]
Unassigned == [assigned |-> FALSE, map |-> EmptyObject]

\* a JSON file on disk: absent, or present with a content that parses or not
NoFile == [exists |-> FALSE, parsable |-> FALSE, content |-> {}]
File(c) == [exists |-> TRUE, parsable |-> TRUE, content |-> c]

\* client.replace(/_/g, ' ').replace(/\b\w/g, c => c.toUpperCase()) + ' Preview'
PreviewName(client) ==
  CASE client = "applemail16_dm" -> "Applemail16 Dm Preview"
    [] client = "m365_w11_dm_dt" -> "M365 W11 Dm Dt Preview"
    [] OTHER -> client \o " Preview"

\* Object.entries(previewUrlsMap).map(([client, url]) => ({name, url, client}))
GeneratedPreviews(map) ==
  {[name |-> PreviewName(c), url |-> map[c], client |-> c] : c \in DOMAIN map}

\* variant: the archive copy is written before the previews are known
ArchiveCopyEmpty(generatedPreviews) == File({})

\* writeFileSync(archiveFilePath, JSON.stringify(generatedPreviews, null, 2))
ArchiveCopy(generatedPreviews) == File(generatedPreviews)

\* a manifest an earlier run wrote for the same task, and one that does not parse
StaleManifest == File(GeneratedPreviews("applemail16_dm" :> "https://eoa/earlier"))
CorruptManifest == [exists |-> TRUE, parsable |-> FALSE, content |-> {}]

\* the manifest a run may find: one of an earlier run is considered for the runs
\* that stop before the service is called and for the runs that track one client
InitialManifests(e, list) ==
  IF SetupChecks(e, [temp |-> TRUE, archive |-> TRUE]).result # "call" \/ Len(list) = 1
  THEN {NoFile, StaleManifest, CorruptManifest}
  ELSE {NoFile}

(***************************************************************************)
(* tests/blueprint.spec.ts: the tests the file registers when it is loaded.*)
(***************************************************************************)
NotLoaded == [loaded |-> FALSE, screenshot |-> {}, skipped |-> {}]

\* `Tests Staging - ${preview.name} (${preview.client})`
TestTitle(preview) ==
  "Tests Staging - " \o preview.name \o " (" \o preview.client \o ")"

\* `${preview.client.toLowerCase().replace(/[^a-z0-9]+/g, '-')}.png`
ScreenshotName(client) ==
  CASE client = "applemail16_dm" -> "applemail16-dm.png"
    [] client = "m365_w11_dm_dt" -> "m365-w11-dm-dt.png"
    [] OTHER -> client \o ".png"

\* generatedPreviews after the existsSync / JSON.parse block
LoadedPreviews(file) == IF file.exists /\ file.parsable THEN file.content ELSE {}

\* variant: a single preview is treated like none
HasPreviewsMoreThanOne(generatedPreviews) == Cardinality(generatedPreviews) > 1

\* generatedPreviews.length > 0
HasPreviews(generatedPreviews) == Cardinality(generatedPreviews) > 0

\* one screenshot test: its title, the URL page.goto is called with, the snapshot
ScreenshotTest(preview) ==
  [title |-> TestTitle(preview), goto |-> preview.url,
   screenshotName |-> ScreenshotName(preview.client), client |-> preview.client]

\* what the top level of the test file registers
RegisteredTests(taskIdSet, file) ==
  IF ~taskIdSet
  THEN [loaded |-> TRUE, screenshot |-> {}, skipped |-> {"No task name defined"}]
  ELSE LET generatedPreviews == LoadedPreviews(file) IN
    IF HasPreviews(generatedPreviews)
    THEN [loaded |-> TRUE,
          screenshot |-> {ScreenshotTest(preview) : preview \in generatedPreviews},
          skipped |-> {}]
    ELSE [loaded |-> TRUE, screenshot |-> {},
          skipped |-> {"Skipping tests as no preview URLs were generated."}]

(***************************************************************************)
(* Observations kept for the properties (no effect on the program).        *)
(***************************************************************************)
\* every listed client is present in the response with a final status
ListedAllFinal(list, results) ==
  \A i \in 1..Len(list) :
    /\ list[i] \in DOMAIN results
    /\ results[list[i]].status \in {"Complete", "Failed", "Bounced"}

\* every listed client is present in the response, Complete, with a default of type string
ListedAllCompleteWithString(list, results) ==
  \A i \in 1..Len(list) :
    /\ list[i] \in DOMAIN results
    /\ results[list[i]].status = "Complete"
    /\ results[list[i]].default.t = "string"

\* client id -> screenshots.default, for the clients a response reports Complete
\* with a default of type string
ReportedComplete(results) ==
  [c \in {k \in DOMAIN results : /\ results[k].status = "Complete"
                                 /\ results[k].default.t = "string"}
     |-> results[c].default.v]

\* what is kept of a fetch outcome: all of it when the fetch ended the loop,
\* its kind and status otherwise
Kept(o, ended) == IF ended THEN o ELSE [o EXCEPT !.hasData = FALSE, !.data = EmptyObject]

ObservePreview(o, ended) ==
  /\ fetches' = fetches + 1
  /\ gap' = 0
  /\ gapMs' = 0
  /\ outcome' = Kept(o, ended)
  /\ finalSeenAt' = IF finalSeenAt = 0 /\ o.kind = "ok" /\ Len(emailClients) > 0
                       /\ ListedAllFinal(emailClients, CurrentApiResults(o))
                    THEN fetches + 1 ELSE finalSeenAt
  /\ authFailAt' = IF authFailAt = 0 /\ o.kind = "http" /\ o.status = 401
                   THEN fetches + 1 ELSE authFailAt
  /\ firstKeys' = IF firstKeys = {} /\ o.kind = "ok" /\ Len(emailClients) = 0
                  THEN DOMAIN CurrentApiResults(o) ELSE firstKeys
  /\ allCompleteUrls' =
       IF allCompleteUrls = EmptyObject /\ o.kind = "ok" /\ Len(emailClients) > 0
          /\ ListedAllCompleteWithString(emailClients, CurrentApiResults(o))
       THEN [c \in {emailClients[i] : i \in 1..Len(emailClients)} |->
               CurrentApiResults(o)[c].default.v]
       ELSE allCompleteUrls
  /\ reportedNow' = IF o.kind = "ok" THEN ReportedComplete(CurrentApiResults(o))
                    ELSE EmptyObject

(***************************************************************************)
(* globalSetup and getPreviewUrls: the actions.                            *)
(***************************************************************************)
\* globalSetup from its first line up to the call of injectHtml
GlobalSetupStart ==
  /\ program = "globalSetup"
  /\ pc = "start"
  /\ LET r == SetupChecks(env, dirs) IN
       /\ dirs' = r.dirs
       /\ pc' = CASE r.result = "return" -> "setupReturned"
                  [] r.result = "throw" -> "setupThrew"
                  [] OTHER -> "injectHtml"
       /\ injectCalls' = IF r.result = "call" THEN injectCalls + 1 ELSE injectCalls
  /\ UNCHANGED <<program, emailClients, attempt, extractedUrls, previewUrlsMap, manifest,
                 archive, fullApiResponse, outputFile, exitCode, fetches, gap, gapMs,
                 outcome, finalSeenAt, authFailAt, firstKeys, allCompleteUrls>>
  /\ UNCHANGED <<env, testId, tests, reportedNow, lastSuccess, payload, html>>

InjectOutcomes == {"ok", "noTestId", "error"}

\* previewService.injectHtml(...): resolves with a test id, or throws
InjectHtml ==
  /\ program = "globalSetup"
  /\ pc = "injectHtml"
  /\ \E o \in InjectOutcomes :
       /\ pc' = IF o = "ok"
                THEN (IF LoopContinues(attempt) THEN "poll" ELSE "returned")
                ELSE "rejected"
       /\ testId' = IF o = "ok" THEN "test-1" ELSE testId
  /\ UNCHANGED <<program, emailClients, attempt, extractedUrls, previewUrlsMap, manifest,
                 archive, fullApiResponse, outputFile, exitCode, fetches, gap, gapMs,
                 outcome, finalSeenAt, authFailAt, firstKeys, allCompleteUrls>>
  /\ UNCHANGED <<env, dirs, injectCalls, tests, reportedNow, lastSuccess, payload, html>>

\* one iteration of the polling loop, from the fetch up to the sleep
PollPreview ==
  /\ program = "globalSetup"
  /\ pc = "poll"
  /\ \E o \in PreviewOutcomes :
       LET r == AttemptResult(o, emailClients, extractedUrls) IN
         /\ extractedUrls' = r.urls
         /\ IF r.throws
            THEN /\ pc' = "rejected"
                 /\ ObservePreview(o, TRUE)
                 /\ UNCHANGED <<attempt, previewUrlsMap>>
            ELSE IF r.breaks
            THEN /\ pc' = "returned"
                 /\ previewUrlsMap' = Resolved(r.urls)
                 /\ ObservePreview(o, TRUE)
                 /\ UNCHANGED attempt
            ELSE IF ShouldWait(attempt, r.processed)
            THEN /\ pc' = "sleep"
                 /\ ObservePreview(o, FALSE)
                 /\ UNCHANGED <<attempt, previewUrlsMap>>
            ELSE /\ attempt' = attempt + 1
                 /\ IF LoopContinues(attempt + 1)
                    THEN /\ pc' = "poll"
                         /\ ObservePreview(o, FALSE)
                         /\ UNCHANGED previewUrlsMap
                    ELSE /\ pc' = "returned"
                         /\ previewUrlsMap' = Resolved(r.urls)
                         /\ ObservePreview(o, TRUE)
  /\ UNCHANGED <<program, emailClients, manifest, archive, fullApiResponse, outputFile,
                 exitCode>>
  /\ UNCHANGED <<env, dirs, injectCalls, testId, tests, lastSuccess, payload, html>>

\* await new Promise(resolve => setTimeout(resolve, POLLING_INTERVAL_MS)); attempt++
SleepPreview ==
  /\ program = "globalSetup"
  /\ pc = "sleep"
  /\ gap' = gap + 1
  /\ gapMs' = gapMs + SleepMs(attempt)
  /\ attempt' = attempt + 1
  /\ IF LoopContinues(attempt + 1)
     THEN pc' = "poll" /\ UNCHANGED previewUrlsMap
     ELSE pc' = "returned" /\ previewUrlsMap' = Resolved(extractedUrls)
  /\ outcome' = NoOutcome
  /\ reportedNow' = EmptyObject
  /\ UNCHANGED <<program, emailClients, extractedUrls, manifest, archive, fullApiResponse,
                 outputFile, exitCode, fetches, finalSeenAt, authFailAt, firstKeys, allCompleteUrls>>
  /\ UNCHANGED <<env, dirs, injectCalls, testId, tests, lastSuccess, payload, html>>

\* getPreviewUrls resolved: write the manifest and its archive copy, finish
WriteManifest ==
  /\ program = "globalSetup"
  /\ pc = "returned"
  /\ manifest' = File(GeneratedPreviews(previewUrlsMap.map))
  /\ archive' = ArchiveCopy(GeneratedPreviews(previewUrlsMap.map))
  /\ pc' = "setupFinished"
  /\ outcome' = NoOutcome
  /\ reportedNow' = EmptyObject
  /\ UNCHANGED <<program, emailClients, attempt, extractedUrls, previewUrlsMap,
                 fullApiResponse, outputFile, exitCode, fetches, gap, gapMs,
                 finalSeenAt, authFailAt, firstKeys, allCompleteUrls>>
  /\ UNCHANGED <<env, dirs, injectCalls, testId, tests, lastSuccess, payload, html>>

\* a service call rejected: the catch block logs and throws
SetupCatch ==
  /\ program = "globalSetup"
  /\ pc = "rejected"
  /\ pc' = "setupThrew"
  /\ UNCHANGED <<program, emailClients, attempt, extractedUrls, previewUrlsMap, manifest,
                 archive, fullApiResponse, outputFile, exitCode, fetches, gap, gapMs,
                 outcome, finalSeenAt, authFailAt, firstKeys, allCompleteUrls>>
  /\ UNCHANGED <<env, dirs, injectCalls, testId, tests, reportedNow, lastSuccess, payload,
                 html>>

\* Playwright loads tests/blueprint.spec.ts once globalSetup is over: the top
\* level of the file reads the manifest and registers the tests
LoadTestFile ==
  /\ program = "globalSetup"
  /\ pc \in {"setupReturned", "setupThrew", "setupFinished"}
  /\ ~tests.loaded
  /\ tests' = RegisteredTests(env.taskName, manifest)
  /\ outcome' = NoOutcome
  /\ reportedNow' = EmptyObject
  /\ UNCHANGED <<program, pc, emailClients, attempt, extractedUrls, previewUrlsMap, manifest,
                 archive, fullApiResponse, outputFile, exitCode, fetches, gap, gapMs,
                 finalSeenAt, authFailAt, firstKeys, allCompleteUrls>>
  /\ UNCHANGED <<env, dirs, injectCalls, testId, lastSuccess, payload, html>>

(***************************************************************************)
(* getFullEmailOnAcidResults (get-full-eoa-results.ts).                    *)
(***************************************************************************)
ResultStatuses == {"complete", "pending", "failed", "processing"}

ResultLists == UNION {[1..n -> ResultStatuses] : n \in 0..MaxResults}

\* a response body: null/empty, or an object with a results array
NullBody == [isNull |-> TRUE, results |-> <<>>]
FullBodies == {NullBody} \cup {[isNull |-> FALSE, results |-> r] : r \in ResultLists}

FullOutcomes ==
  {[kind |-> "ok", status |-> 200, data |-> b] : b \in FullBodies}
  \cup {[kind |-> "http", status |-> s, data |-> NullBody] : s \in {404, 401, 500}}
  \cup {[kind |-> "network", status |-> 0, data |-> NullBody]}

NoFullOutcome == [kind |-> "none", status |-> 0, data |-> NullBody]

\* const results = fullApiResponse?.results || []
FullResults(body) == IF body.isNull THEN <<>> ELSE body.results

\* the value of allClientStatusesFinal after a successful response
StatusesFinal(results, a) ==
  IF Len(results) = 0 /\ a = 0
  THEN FALSE
  ELSE \A i \in 1..Len(results) : results[i] # "pending"

\* if (allClientStatusesFinal && currentStatusCounts.total > 0) break
FullBreaks(results, a) == StatusesFinal(results, a) /\ Len(results) > 0

\* error.response.status === 401: process.exit(1)
FullIsAuthFailure(o) == o.kind = "http" /\ o.status = 401

\* for (...; attempt < MAX_POLLING_ATTEMPTS; ...)
FullLoopContinues(a) == a < FULL_MAX_POLLING_ATTEMPTS

\* if (attempt < MAX_POLLING_ATTEMPTS - 1 && !allClientStatusesFinal) await sleep
FullShouldWait(a, final) == a < FULL_MAX_POLLING_ATTEMPTS - 1 /\ ~final

\* the duration of one sleep
FullSleepMs(a) == FULL_POLLING_INTERVAL_MS

\* one pass through the try/catch of the loop body for a given fetch outcome
FullAttemptResult(o, stored, a) ==
  IF o.kind = "ok"
  THEN LET results == FullResults(o.data)
       IN [response |-> o.data, final |-> StatusesFinal(results, a),
           exits |-> FALSE, breaks |-> FullBreaks(results, a)]
  ELSE IF FullIsAuthFailure(o)
       THEN [response |-> stored, final |-> TRUE, exits |-> TRUE, breaks |-> FALSE]
       ELSE [response |-> stored, final |-> FALSE, exits |-> FALSE, breaks |-> FALSE]

FullKept(o, ended) == IF ended THEN o ELSE [o EXCEPT !.data = NullBody]

ObserveFull(o, ended) ==
  /\ fetches' = fetches + 1
  /\ gap' = 0
  /\ gapMs' = 0
  /\ outcome' = FullKept(o, ended)
  /\ authFailAt' = IF authFailAt = 0 /\ o.kind = "http" /\ o.status = 401
                   THEN fetches + 1 ELSE authFailAt
  /\ lastSuccess' = IF o.kind = "ok" THEN [any |-> TRUE, body |-> o.data] ELSE lastSuccess
  /\ UNCHANGED <<finalSeenAt, firstKeys, allCompleteUrls>>

\* one iteration of the polling loop, from the fetch up to the sleep
PollFull ==
  /\ program = "getFullEmailOnAcidResults"
  /\ pc = "poll"
  /\ \E o \in FullOutcomes :
       LET r == FullAttemptResult(o, fullApiResponse, attempt) IN
         /\ fullApiResponse' = r.response
         /\ IF r.exits
            THEN /\ pc' = "exited"
                 /\ exitCode' = 1
                 /\ ObserveFull(o, TRUE)
                 /\ UNCHANGED attempt
            ELSE IF r.breaks
            THEN /\ pc' = "loopExit"
                 /\ ObserveFull(o, TRUE)
                 /\ UNCHANGED <<attempt, exitCode>>
            ELSE IF FullShouldWait(attempt, r.final)
            THEN /\ pc' = "sleep"
                 /\ ObserveFull(o, FALSE)
                 /\ UNCHANGED <<attempt, exitCode>>
            ELSE /\ attempt' = attempt + 1
                 /\ IF FullLoopContinues(attempt + 1)
                    THEN pc' = "poll" /\ ObserveFull(o, FALSE)
                    ELSE pc' = "loopExit" /\ ObserveFull(o, TRUE)
                 /\ UNCHANGED exitCode
  /\ UNCHANGED <<program, emailClients, extractedUrls, previewUrlsMap, manifest, archive,
                 outputFile>>
  /\ UNCHANGED <<env, dirs, injectCalls, testId, tests, reportedNow, payload, html>>

\* await new Promise(resolve => setTimeout(resolve, POLLING_INTERVAL_MS)); attempt++
SleepFull ==
  /\ program = "getFullEmailOnAcidResults"
  /\ pc = "sleep"
  /\ gap' = gap + 1
  /\ gapMs' = gapMs + FullSleepMs(attempt)
  /\ attempt' = attempt + 1
  /\ pc' = IF FullLoopContinues(attempt + 1) THEN "poll" ELSE "loopExit"
  /\ outcome' = NoFullOutcome
  /\ UNCHANGED <<program, emailClients, extractedUrls, previewUrlsMap, manifest, archive,
                 fullApiResponse, outputFile, exitCode, fetches, finalSeenAt, authFailAt,
                 firstKeys, allCompleteUrls>>
  /\ UNCHANGED <<env, dirs, injectCalls, testId, tests, reportedNow, lastSuccess, payload,
                 html>>

\* after the loop: exit 1 without a response, else save it and end
SaveResults ==
  /\ program = "getFullEmailOnAcidResults"
  /\ pc = "loopExit"
  /\ pc' = "exited"
  /\ IF fullApiResponse.isNull
     THEN exitCode' = 1 /\ UNCHANGED outputFile
     ELSE exitCode' = 0 /\ outputFile' = [exists |-> TRUE, content |-> fullApiResponse]
  /\ UNCHANGED <<program, emailClients, attempt, extractedUrls, previewUrlsMap, manifest,
                 archive, fullApiResponse, fetches, gap, gapMs, outcome, finalSeenAt,
                 authFailAt, firstKeys, allCompleteUrls>>
  /\ UNCHANGED <<env, dirs, injectCalls, testId, tests, reportedNow, lastSuccess, payload,
                 html>>

(***************************************************************************)
(* getHtmlFromPayload (tests/blueprint.spec.ts, the Gmail extractor).      *)
(***************************************************************************)
\* body.data as the Gmail API sends it: base64url text of a non-empty body
EncodedBodies == {"PGI-PC9iPg==", "PHA-PC9wPg=="}

\* Buffer.from(data, 'base64').toString('utf8')
Base64Decode(data) ==
  CASE data = "PGI-PC9iPg==" -> "<b></b>"
    [] data = "PHA-PC9wPg==" -> "<p></p>"
    [] OTHER -> ""

\* mimeType and body.data of one message part
PartLabels ==
  {[mimeType |-> "multipart/alternative", data |-> Undefined],
   [mimeType |-> "text/plain", data |-> Str("PHA-PC9wPg==")],
   [mimeType |-> "text/html", data |-> Undefined],
   [mimeType |-> "text/html", data |-> Str("")]}
  \cup {[mimeType |-> "text/html", data |-> Str(d)] : d \in EncodedBodies}

\* a message part with the given mimeType and body.data, and the given parts
Part(label, parts) == [mimeType |-> label.mimeType, data |-> label.data, parts |-> parts]

\* the lists of parts made of k parts in all, for k = 0..n (at index k + 1)
RECURSIVE PartLists(_)
PartLists(n) ==
  IF n = 0 THEN << {<<>>} >>
  ELSE LET lists == PartLists(n - 1)
           Trees(k) == {Part(l, f) : l \in PartLabels, f \in lists[k]}
       IN Append(lists,
                 UNION {{<<t>> \o f : t \in Trees(k), f \in lists[n - k + 1]} : k \in 1..n})

\* the payloads: a root part over a list of parts, MaxNodes parts in all at most
Payloads ==
  LET lists == PartLists(MaxNodes - 1)
  IN {Part(l, f) : l \in PartLabels, f \in UNION {lists[k] : k \in 1..MaxNodes}}

NoPayload == [mimeType |-> "", data |-> Undefined, parts |-> <<>>]

\* variant: the parts are searched before the part's own body is looked at
RECURSIVE GetHtmlPartsFirst(_), HtmlOfPartsPartsFirst(_)
GetHtmlPartsFirst(part) ==
  LET found == HtmlOfPartsPartsFirst(part.parts) IN
    IF Truthy(found) THEN found
    ELSE IF part.mimeType = "text/html" /\ Truthy(part.data)
         THEN Str(Base64Decode(part.data.v))
         ELSE Null

HtmlOfPartsPartsFirst(parts) ==
  IF parts = <<>> THEN Null
  ELSE LET found == GetHtmlPartsFirst(Head(parts)) IN
         IF Truthy(found) THEN found ELSE HtmlOfPartsPartsFirst(Tail(parts))

\* getHtmlFromPayload, and its for loop over payload.parts
RECURSIVE GetHtmlFromPayload(_), HtmlOfParts(_)
GetHtmlFromPayload(part) ==
  IF part.mimeType = "text/html" /\ Truthy(part.data)
  THEN Str(Base64Decode(part.data.v))
  ELSE HtmlOfParts(part.parts)

HtmlOfParts(parts) ==
  IF parts = <<>> THEN Null
  ELSE LET found == GetHtmlFromPayload(Head(parts)) IN
         IF Truthy(found) THEN found ELSE HtmlOfParts(Tail(parts))

\* const html = getHtmlFromPayload(payload)
ExtractHtml ==
  /\ program = "getEmailHtmlById"
  /\ pc = "call"
  /\ html' = GetHtmlFromPayload(payload)
  /\ pc' = "done"
  /\ UNCHANGED <<program, emailClients, attempt, extractedUrls, previewUrlsMap, manifest,
                 archive, fullApiResponse, outputFile, exitCode, fetches, gap, gapMs,
                 outcome, finalSeenAt, authFailAt, firstKeys, allCompleteUrls>>
  /\ UNCHANGED <<env, dirs, injectCalls, testId, tests, reportedNow, lastSuccess, payload>>

(***************************************************************************)
(* The specification.                                                      *)
(***************************************************************************)
Init ==
  /\ program \in {"globalSetup", "getFullEmailOnAcidResults"}
  /\ pc = IF program = "globalSetup" THEN "start" ELSE "poll"
  /\ env \in (IF program = "globalSetup" THEN Envs ELSE {NoEnv})
  /\ emailClients \in (IF program = "globalSetup" /\ env.clientsFile = "ok"
                        THEN EmailClientLists ELSE {<<>>})
  /\ attempt = 0
  /\ extractedUrls = EmptyObject
  /\ previewUrlsMap = Unassigned
  /\ manifest \in (IF program = "globalSetup" THEN InitialManifests(env, emailClients)
                    ELSE {NoFile})
  /\ dirs = [temp |-> manifest.exists, archive |-> manifest.exists]
  /\ injectCalls = 0
  /\ testId = ""
  /\ tests = NotLoaded
  /\ reportedNow = EmptyObject
  /\ lastSuccess = [any |-> FALSE, body |-> NullBody]
  /\ payload = NoPayload
  /\ html = Undefined
  /\ archive = NoFile
  /\ fullApiResponse = NullBody
  /\ outputFile = [exists |-> FALSE, content |-> NullBody]
  /\ exitCode = -1
  /\ fetches = 0
  /\ gap = 0
  /\ gapMs = 0
  /\ outcome = IF program = "globalSetup" THEN NoOutcome ELSE NoFullOutcome
  /\ finalSeenAt = 0
  /\ authFailAt = 0
  /\ firstKeys = {}
  /\ allCompleteUrls = EmptyObject

Next ==
  \/ GlobalSetupStart
  \/ InjectHtml
  \/ PollPreview
  \/ SleepPreview
  \/ WriteManifest
  \/ SetupCatch
  \/ LoadTestFile
  \/ PollFull
  \/ SleepFull
  \/ SaveResults

Spec == Init /\ [][Next]_vars

\* the program keeps running until it ends: every fetch comes to an outcome
FairSpec == Spec /\ WF_vars(Next)

\* one call of getHtmlFromPayload on an arbitrary payload
InitHtml ==
  /\ program = "getEmailHtmlById"
  /\ pc = "call"
  /\ payload \in Payloads
  /\ html = Undefined
  /\ env = NoEnv
  /\ emailClients = <<>>
  /\ attempt = 0
  /\ extractedUrls = EmptyObject
  /\ previewUrlsMap = Unassigned
  /\ manifest = NoFile
  /\ archive = NoFile
  /\ dirs = [temp |-> FALSE, archive |-> FALSE]
  /\ injectCalls = 0
  /\ testId = ""
  /\ tests = NotLoaded
  /\ reportedNow = EmptyObject
  /\ lastSuccess = [any |-> FALSE, body |-> NullBody]
  /\ fullApiResponse = NullBody
  /\ outputFile = [exists |-> FALSE, content |-> NullBody]
  /\ exitCode = -1
  /\ fetches = 0
  /\ gap = 0
  /\ gapMs = 0
  /\ outcome = NoOutcome
  /\ finalSeenAt = 0
  /\ authFailAt = 0
  /\ firstKeys = {}
  /\ allCompleteUrls = EmptyObject

NextHtml == ExtractHtml

HtmlSpec == InitHtml /\ [][NextHtml]_vars

(***************************************************************************)
(* Properties.                                                             *)
(***************************************************************************)
ListedClients == {emailClients[i] : i \in 1..Len(emailClients)}

\* getPreviewUrls has run and its polling loop is over
PreviewPollingEnded ==
  /\ program = "globalSetup"
  /\ fetches >= 1
  /\ pc \in {"returned", "rejected", "setupFinished", "setupThrew"}

\* the polling loop of the running program is over
PollingFinished ==
  pc \in {"returned", "rejected", "setupFinished", "setupThrew", "loopExit", "exited"}

\* C1: whatever the service answers, getPreviewUrls issues at most 60 status
\* fetches and then finishes (returns or throws), and so does the polling loop
\* of the full-results script (a run of globalSetup that returns for want of
\* TASK_NAME never calls getPreviewUrls).
C1_BoundedPolling ==
  /\ [](program = "globalSetup" => fetches <= 60)
  /\ [](program = "getFullEmailOnAcidResults" => fetches <= 60)
  /\ <>(PollingFinished \/ pc = "setupReturned")

\* all 60 attempts were used and getPreviewUrls returned
C1_Witness ==
  /\ program = "globalSetup"
  /\ pc = "returned"
  /\ fetches = 60

\* C2 (as stated): with a non-empty emailClients list, polling ends before the
\* 60th attempt if and only if some fetch returned a response in which every
\* listed client is present with status Complete, Failed or Bounced (and no
\* fetch follows that response), or failed with HTTP 401.
C2_Original ==
  (PreviewPollingEnded /\ Len(emailClients) > 0) =>
     /\ (fetches < 60) <=> (finalSeenAt # 0 \/ authFailAt # 0)
     /\ finalSeenAt # 0 => fetches = finalSeenAt

\* C2 (amended): with a non-empty emailClients list, polling ends before the
\* 60th attempt if and only if one of the first 59 fetches returned a response
\* in which every listed client is present with status Complete, Failed or
\* Bounced, or failed with HTTP 401; no fetch follows such a response or
\* failure, on whichever attempt it comes.
C2_EarlyExit ==
  /\ (PreviewPollingEnded /\ Len(emailClients) > 0) =>
        ((fetches < 60) <=> \/ finalSeenAt \in 1..59
                            \/ authFailAt \in 1..59)
  /\ finalSeenAt # 0 => fetches = finalSeenAt
  /\ authFailAt # 0 => fetches = authFailAt

\* polling ended at the third fetch, on a response with every listed client final
C2_Witness ==
  /\ PreviewPollingEnded
  /\ Len(emailClients) = 2
  /\ fetches = 3
  /\ finalSeenAt = 3
  /\ pc = "returned"

\* C3 (as stated): with an empty emailClients list, the tracked clients are the
\* keys of the first response that contains client keys, and polling does not
\* stop early until every one of them is Complete, Failed or Bounced.
C3_Original ==
  (/\ program = "globalSetup"
   /\ Len(emailClients) = 0
   /\ pc = "returned"
   /\ fetches < 60)
  => /\ firstKeys # {}
     /\ \A c \in firstKeys :
          /\ c \in DOMAIN outcome.data
          /\ outcome.data[c].status \in {"Complete", "Failed", "Bounced"}

\* C4: after a fetch failed with HTTP 401 no further fetch is issued;
\* getPreviewUrls rejects on that attempt and its URLs are dropped, so that
\* globalSetup never finishes normally and writes neither manifest nor archive
\* (the manifest is absent or as an earlier run left it);
\* the full-results script exits with code 1 and writes no output file.
C4_AuthFailureAborts ==
  authFailAt # 0 =>
    /\ fetches = authFailAt
    /\ program = "globalSetup" =>
         /\ pc \in {"rejected", "setupThrew"}
         /\ ~previewUrlsMap.assigned
         /\ manifest \in {NoFile, StaleManifest, CorruptManifest}
         /\ ~archive.exists
    /\ program = "getFullEmailOnAcidResults" =>
         /\ pc = "exited"
         /\ exitCode = 1
         /\ ~outputFile.exists

\* globalSetup threw on a 401 that came after URLs had been extracted
C4_Witness ==
  /\ program = "globalSetup"
  /\ pc = "setupThrew"
  /\ authFailAt = 3
  /\ DOMAIN extractedUrls # {}

\* a fetch outcome that is an error other than HTTP 401
TransientFailure(o) ==
  \/ o.kind = "network"
  \/ o.kind = "http" /\ o.status # 401

\* C5: a fetch that fails with HTTP 404, with another HTTP status than 401 or
\* with a network error leaves the extracted URLs and the stored response as
\* they were and does not end polling: before the 60th attempt the program goes
\* to the wait, the wait leads to the next iteration, and the next iteration
\* starts with a fetch.
C5_TransientFailuresRetry ==
  [][ /\ (pc = "poll" /\ TransientFailure(outcome')) =>
           /\ extractedUrls' = extractedUrls
           /\ fullApiResponse' = fullApiResponse
           /\ previewUrlsMap' = previewUrlsMap \/ fetches' = 60
           /\ exitCode' = exitCode
           /\ fetches' < 60 => pc' = "sleep"
           /\ fetches' = 60 => pc' \in {"returned", "loopExit"}
      /\ pc = "sleep" => (pc' = "poll" /\ fetches' = fetches /\ fetches < 60)
      /\ pc = "poll" => fetches' = fetches + 1
    ]_vars

\* a 404 came after a URL had been extracted, and the program waits to retry
C5_Witness ==
  /\ program = "globalSetup"
  /\ pc = "sleep"
  /\ outcome.kind = "http"
  /\ outcome.status = 404
  /\ DOMAIN extractedUrls # {}

\* the clients getPreviewUrls tracked in the response that ended its loop
TrackedAtEnd ==
  IF Len(emailClients) > 0 THEN ListedClients ELSE DOMAIN outcome.data

\* getPreviewUrls returned and the fetch that ended its loop was a response
ReturnedOnResponse ==
  /\ program = "globalSetup"
  /\ pc = "returned"
  /\ outcome.kind = "ok"

\* the reason the code logs for a Failed or Bounced client
FailureReason(clientResult) == clientResult.error_message.v

\* C6 (as stated): when getPreviewUrls returns, its map has an entry for every
\* tracked client that reached a terminal state: the screenshot URL of a client
\* that ended Complete, the failure reason of one that ended Failed or Bounced.
C6_Original ==
  ReturnedOnResponse =>
    \A c \in TrackedAtEnd \cap DOMAIN outcome.data :
      LET clientResult == outcome.data[c] IN
        /\ clientResult.status = "Complete" =>
             /\ c \in DOMAIN previewUrlsMap.map
             /\ previewUrlsMap.map[c] = clientResult.default.v
        /\ clientResult.status \in {"Failed", "Bounced"} =>
             /\ c \in DOMAIN previewUrlsMap.map
             /\ previewUrlsMap.map[c] = FailureReason(clientResult)

\* C6 (amended): when getPreviewUrls returns, its map has an entry, the
\* screenshot URL, for every tracked client that the last response reports
\* Complete with a non-empty string default screenshot URL; the map holds
\* non-empty URL strings only, never a failure reason: for a client that ended
\* Failed or Bounced the reason is only logged.
C6_ReturnedMap ==
  /\ ReturnedOnResponse =>
       \A c \in TrackedAtEnd \cap DOMAIN outcome.data :
         LET clientResult == outcome.data[c] IN
           /\ (/\ clientResult.status = "Complete"
               /\ clientResult.default.t = "string"
               /\ clientResult.default.v # "") =>
                 /\ c \in DOMAIN previewUrlsMap.map
                 /\ previewUrlsMap.map[c] = clientResult.default.v
           /\ clientResult.status \in {"Failed", "Bounced"} =>
                 \/ c \notin DOMAIN previewUrlsMap.map
                 \/ previewUrlsMap.map[c] # FailureReason(clientResult)
  /\ previewUrlsMap.assigned =>
       \A c \in DOMAIN previewUrlsMap.map : previewUrlsMap.map[c] \in UrlStrings

\* getPreviewUrls returned on a response with one client Complete and one Failed
C6_Witness ==
  /\ ReturnedOnResponse
  /\ emailClients = DefaultClients
  /\ DOMAIN outcome.data = Clients
  /\ outcome.data["applemail16_dm"].status = "Complete"
  /\ outcome.data["applemail16_dm"].default.t = "string"
  /\ outcome.data["applemail16_dm"].default.v # ""
  /\ outcome.data["m365_w11_dm_dt"].status = "Failed"
  /\ DOMAIN previewUrlsMap.map = {"applemail16_dm"}

\* C7: when all 60 attempts were used and none failed with HTTP 401, clients
\* still pending or not, getPreviewUrls returns the URLs extracted so far
\* (possibly none) without throwing, and globalSetup writes the manifest from
\* that map and finishes without throwing.
C7_CeilingIsNotFatal ==
  (program = "globalSetup" /\ fetches = 60 /\ authFailAt = 0) =>
    /\ pc \in {"returned", "setupFinished"}
    /\ previewUrlsMap.assigned
    /\ previewUrlsMap.map = extractedUrls
    /\ pc = "setupFinished" =>
         /\ manifest.exists
         /\ {e.client : e \in manifest.content} = DOMAIN extractedUrls
         /\ \A e \in manifest.content : e.url = extractedUrls[e.client]

\* the ceiling was reached with one of two clients done; the manifest is written
C7_Witness ==
  /\ program = "globalSetup"
  /\ pc = "setupFinished"
  /\ fetches = 60
  /\ finalSeenAt = 0
  /\ emailClients = DefaultClients
  /\ DOMAIN extractedUrls = {"applemail16_dm"}
  /\ Cardinality(manifest.content) = 1

\* C8 (as stated): if no fetch fails with HTTP 401 and some response reports
\* every client of a non-empty emailClients list Complete with a string default
\* screenshot URL, getPreviewUrls returns a map that holds, for every listed
\* client, the URL of that response.
C8_Original ==
  (program = "globalSetup" /\ allCompleteUrls # EmptyObject /\ authFailAt = 0) =>
    /\ pc \in {"returned", "setupFinished"}
    /\ \A c \in ListedClients :
         /\ c \in DOMAIN previewUrlsMap.map
         /\ previewUrlsMap.map[c] = allCompleteUrls[c]

\* C8 (amended): if no fetch fails with HTTP 401 and some response reports
\* every client of a non-empty emailClients list Complete with a non-empty
\* string default screenshot URL, getPreviewUrls returns a map that holds, for
\* every listed client, the URL of that response.
C8_AllCompleteReturnsAll ==
  (/\ program = "globalSetup"
   /\ allCompleteUrls # EmptyObject
   /\ \A c \in DOMAIN allCompleteUrls : allCompleteUrls[c] # ""
   /\ authFailAt = 0) =>
    /\ pc \in {"returned", "setupFinished"}
    /\ \A c \in ListedClients :
         /\ c \in DOMAIN previewUrlsMap.map
         /\ previewUrlsMap.map[c] = allCompleteUrls[c]

\* the third response reported both clients Complete, with different URLs, after
\* an earlier response had given the first client the other URL
C8_Witness ==
  /\ program = "globalSetup"
  /\ pc = "returned"
  /\ fetches = 3
  /\ emailClients = DefaultClients
  /\ DOMAIN allCompleteUrls = Clients
  /\ allCompleteUrls["applemail16_dm"] = "https://eoa/shot1"
  /\ allCompleteUrls["m365_w11_dm_dt"] = "https://eoa/shot2"

\* C9: in getPreviewUrls every two consecutive fetches are separated by exactly
\* one wait of 10000 ms, whatever the attempt, and no wait follows the 60th
\* attempt or the fetch that ends polling.
C9_FixedIntervalPreview ==
  program = "globalSetup" =>
    /\ (pc = "poll" /\ fetches > 0) => (gap = 1 /\ gapMs = 10000)
    /\ pc = "sleep" => (gap = 0 /\ fetches < 60)
    /\ pc \in {"returned", "rejected", "setupFinished", "setupThrew"} =>
         (gap = 0 /\ gapMs = 0)

\* the 60th fetch is about to be issued, one wait after the 59th
C9_Witness ==
  /\ program = "globalSetup"
  /\ pc = "poll"
  /\ fetches = 59
  /\ gap = 1

\* C10 (as stated): in the full-results script every two consecutive fetches are
\* separated by one wait of the fixed interval, whatever the responses, an empty
\* results list on any attempt included.
C10_Original ==
  (program = "getFullEmailOnAcidResults" /\ pc = "poll" /\ fetches > 0) =>
     (gap = 1 /\ gapMs = 10000)

\* C11: with a non-empty emailClients list, every key of the map getPreviewUrls
\* returns is a member of emailClients and its value is a non-empty string that
\* some polled response reported as that client's screenshots.default while the
\* client's status was Complete: the returned map is extractedUrls, and an entry
\* of extractedUrls appears or changes only at a fetch whose response reports
\* that client Complete with that string.
C11_ReturnedEntriesWereReported ==
  /\ []((program = "globalSetup" /\ Len(emailClients) > 0 /\ previewUrlsMap.assigned) =>
          /\ previewUrlsMap.map = extractedUrls
          /\ DOMAIN previewUrlsMap.map \subseteq ListedClients
          /\ \A c \in DOMAIN previewUrlsMap.map : previewUrlsMap.map[c] # "")
  /\ [][ (program = "globalSetup" /\ Len(emailClients) > 0) =>
           \A c \in DOMAIN extractedUrls' :
             \/ c \in DOMAIN extractedUrls /\ extractedUrls'[c] = extractedUrls[c]
             \/ /\ fetches' = fetches + 1
                /\ c \in DOMAIN reportedNow'
                /\ reportedNow'[c] = extractedUrls'[c]
                /\ extractedUrls'[c] # ""
       ]_vars

\* the second response ended polling with the first client Failed; the map still
\* holds the URL the first response reported for it
C11_Witness ==
  /\ program = "globalSetup"
  /\ pc = "returned"
  /\ emailClients = DefaultClients
  /\ fetches = 2
  /\ outcome.kind = "ok"
  /\ "applemail16_dm" \in DOMAIN outcome.data
  /\ outcome.data["applemail16_dm"].status = "Failed"
  /\ DOMAIN previewUrlsMap.map = Clients
  /\ previewUrlsMap.map["applemail16_dm"] = "https://eoa/shot1"
  /\ previewUrlsMap.map["m365_w11_dm_dt"] = "https://eoa/shot2"

\* C12: the manifest written by globalSetup contains exactly one entry
\* {name, url, client} per key of the map getPreviewUrls returned; the test file
\* registers exactly one screenshot test per manifest entry, each navigating to
\* that entry's url; when the manifest is missing, unparsable or empty it
\* registers only a skipped placeholder and no screenshot test.
C12_ManifestDrivesTests ==
  /\ (program = "globalSetup" /\ pc = "setupFinished") =>
       /\ manifest.exists
       /\ manifest.parsable
       /\ Cardinality(manifest.content) = Cardinality(DOMAIN previewUrlsMap.map)
       /\ \A c \in DOMAIN previewUrlsMap.map :
            \E e \in manifest.content :
              e.client = c /\ e.url = previewUrlsMap.map[c] /\ e.name # ""
  /\ tests.loaded =>
       IF env.taskName /\ manifest.exists /\ manifest.parsable /\ manifest.content # {}
       THEN /\ tests.skipped = {}
            /\ Cardinality(tests.screenshot) = Cardinality(manifest.content)
            /\ \A e \in manifest.content :
                 \E t \in tests.screenshot : t.goto = e.url /\ t.client = e.client
       ELSE /\ tests.screenshot = {}
            /\ Cardinality(tests.skipped) = 1

\* globalSetup wrote a manifest of two entries and the test file registered two
\* screenshot tests that navigate to different URLs
C12_Witness ==
  /\ program = "globalSetup"
  /\ pc = "setupFinished"
  /\ tests.loaded
  /\ Cardinality(manifest.content) = 2
  /\ Cardinality({t.goto : t \in tests.screenshot}) = 2

\* C13: globalSetup calls injectHtml before getPreviewUrls and writes the
\* manifest only after both succeeded; whenever it writes the manifest it then
\* writes an archive copy with identical content; if either service call fails,
\* neither file is written (a manifest left by an earlier run stays unchanged)
\* and globalSetup throws.
C13_ManifestAfterBothCalls ==
  /\ [](program = "globalSetup" =>
          /\ fetches > 0 => (injectCalls = 1 /\ testId # "")
          /\ pc \in {"rejected", "setupThrew"} =>
               /\ manifest \in {NoFile, StaleManifest, CorruptManifest}
               /\ ~archive.exists)
  /\ [][ program = "globalSetup" =>
           /\ (manifest' # manifest \/ archive' # archive \/
               (pc' = "setupFinished" /\ pc # "setupFinished")) =>
                 /\ pc = "returned"
                 /\ pc' = "setupFinished"
                 /\ testId # ""
                 /\ previewUrlsMap.assigned
                 /\ manifest'.exists
                 /\ manifest'.parsable
                 /\ archive' = manifest'
           /\ pc = "rejected" => (pc' = "setupThrew" /\ manifest' = manifest)
           /\ pc = "setupThrew" => (pc' = "setupThrew" /\ manifest' = manifest)
       ]_vars

\* injectHtml succeeded, getPreviewUrls rejected at its second fetch; globalSetup
\* threw and the manifest of the earlier run is still there
C13_Witness ==
  /\ program = "globalSetup"
  /\ pc = "setupThrew"
  /\ testId # ""
  /\ authFailAt = 2
  /\ manifest = StaleManifest
  /\ ~archive.exists

\* C14 (as stated): the full-results script writes to disk exactly the response
\* body of its most recent successful fetch, and if no fetch succeeded in any of
\* the 60 attempts it exits with code 1 without writing a file.
C14_Original ==
  (program = "getFullEmailOnAcidResults" /\ pc = "exited" /\ authFailAt = 0) =>
     IF lastSuccess.any
     THEN /\ outputFile.exists
          /\ outputFile.content = lastSuccess.body
     ELSE /\ exitCode = 1
          /\ ~outputFile.exists

\* getPreviewUrls returned before the 60th fetch, on a response
ReturnedEarlyOnResponse ==
  /\ program = "globalSetup"
  /\ pc = "returned"
  /\ fetches < 60
  /\ outcome.kind = "ok"

\* C15 (as stated): a tracked client whose status is Complete but whose default
\* screenshot URL is missing or not a string is treated as not yet processed: a
\* response containing such a client does not end polling, and another fetch
\* follows while attempts remain.
C15_Original ==
  ReturnedEarlyOnResponse =>
    \A c \in TrackedAtEnd \cap DOMAIN outcome.data :
      ~(/\ outcome.data[c].status = "Complete"
        /\ outcome.data[c].default.t # "string")

\* C16 (as stated): whenever a successful response contains no client entries,
\* polling continues: another fetch follows while attempts remain, for an empty
\* as well as a non-empty emailClients list.
C16_Original ==
  ReturnedEarlyOnResponse => (outcome.hasData /\ DOMAIN outcome.data # {})

\* C17 (as stated): the full-results script ends polling before the 60th attempt
\* only on a response that has at least one result and in which every result's
\* status is complete or failed; a response containing a result with any other
\* status (pending, or none of complete, pending and failed) does not end polling.
C17_Original ==
  (program = "getFullEmailOnAcidResults" /\ pc = "loopExit" /\ fetches < 60) =>
     /\ outcome.kind = "ok"
     /\ ~outcome.data.isNull
     /\ Len(outcome.data.results) > 0
     /\ \A i \in 1..Len(outcome.data.results) :
          outcome.data.results[i] \in {"complete", "failed"}

\* C18 (as stated): the set of clients with an extracted URL only grows: a URL
\* once stored is never removed by a later response (the client Failed, Bounced,
\* pending or absent included) or by a failed fetch, and its final value is the
\* screenshots.default of the most recent response that reported that client
\* Complete with a string URL: at every fetch whose response reports a stored
\* client Complete with a string, the entry becomes that string, and in every
\* other step it stays as it is.
C18_Original ==
  /\ [](previewUrlsMap.assigned => previewUrlsMap.map = extractedUrls)
  /\ [][ program = "globalSetup" =>
           /\ DOMAIN extractedUrls \subseteq DOMAIN extractedUrls'
           /\ \A c \in DOMAIN extractedUrls :
                IF fetches' = fetches + 1 /\ c \in DOMAIN reportedNow'
                THEN extractedUrls'[c] = reportedNow'[c]
                ELSE extractedUrls'[c] = extractedUrls[c]
       ]_vars

\* C18 (amended): the set of clients with an extracted URL only grows: a URL
\* once stored is never removed by a later response or by a failed fetch, and
\* its final value is the screenshots.default of the most recent response that
\* reported that client Complete with a non-empty string URL.
C18_UrlsOnlyGrow ==
  /\ [](previewUrlsMap.assigned => previewUrlsMap.map = extractedUrls)
  /\ [][ program = "globalSetup" =>
           /\ DOMAIN extractedUrls \subseteq DOMAIN extractedUrls'
           /\ \A c \in DOMAIN extractedUrls :
                IF /\ fetches' = fetches + 1
                   /\ c \in DOMAIN reportedNow'
                   /\ reportedNow'[c] # ""
                THEN extractedUrls'[c] = reportedNow'[c]
                ELSE extractedUrls'[c] = extractedUrls[c]
       ]_vars

\* both clients have a URL, the first one the URL of the second response; the
\* third response reports the first client Complete with an empty default and
\* the second one absent, and both URLs are still there
C18_Witness ==
  /\ program = "globalSetup"
  /\ pc = "sleep"
  /\ emailClients = DefaultClients
  /\ fetches = 3
  /\ DOMAIN extractedUrls = Clients
  /\ extractedUrls["applemail16_dm"] = "https://eoa/shot2"
  /\ DOMAIN reportedNow = {"applemail16_dm"}
  /\ reportedNow["applemail16_dm"] = ""

\* one of TASK_NAME, the HTML file, the default clients file, the service name,
\* its API key and the account password is missing
SetupInputMissing ==
  \/ ~env.taskName
  \/ ~env.htmlFile
  \/ env.clientsFile = "missing"
  \/ env.service = ""
  \/ ~env.apiKey
  \/ ~env.accountPassword

\* C19: globalSetup makes no call to the preview service and writes or creates
\* no file or directory when TASK_NAME is unset (it then returns without
\* throwing) or when the task's HTML file, the default clients file, or any of
\* EMAIL_PREVIEW_SERVICE, its API key and the account password is missing (it
\* then throws).
C19_NoSideEffectsOnMissingInput ==
  /\ []((program = "globalSetup" /\ SetupInputMissing) =>
          /\ injectCalls = 0
          /\ fetches = 0
          /\ testId = ""
          /\ ~previewUrlsMap.assigned
          /\ ~archive.exists
          /\ pc \in {"start", IF env.taskName THEN "setupThrew" ELSE "setupReturned"})
  /\ [][ (program = "globalSetup" /\ SetupInputMissing) =>
           /\ manifest' = manifest
           /\ archive' = archive
           /\ dirs' = dirs
           /\ pc = "start" => pc' # "start"
       ]_vars

\* everything is there but the account password: globalSetup threw and the
\* directories were not created
C19_Witness ==
  /\ program = "globalSetup"
  /\ pc = "setupThrew"
  /\ env.taskName
  /\ env.htmlFile
  /\ env.clientsFile = "ok"
  /\ env.service = "emailonacid"
  /\ env.apiKey
  /\ ~env.accountPassword
  /\ ~dirs.temp
  /\ ~dirs.archive

\* the parts of a message part tree in depth-first pre-order
RECURSIVE PreOrder(_), PreOrderOfList(_)
PreOrder(part) == <<part>> \o PreOrderOfList(part.parts)

PreOrderOfList(parts) ==
  IF parts = <<>> THEN <<>>
  ELSE PreOrder(Head(parts)) \o PreOrderOfList(Tail(parts))

\* the parts with mimeType text/html and non-empty body data, in pre-order
HtmlPartsInPreOrder(part) ==
  LET HasHtmlBody(q) == /\ q.mimeType = "text/html"
                        /\ q.data.t = "string"
                        /\ q.data.v # ""
  IN SelectSeq(PreOrder(part), HasHtmlBody)

\* C20: getHtmlFromPayload returns the base64-decoded body of the first part, in
\* depth-first pre-order over the MIME part tree, that has mimeType text/html
\* and non-empty body data, and returns null when the tree has no such part.
C20_FirstHtmlPartInPreOrder ==
  (program = "getEmailHtmlById" /\ pc = "done") =>
    LET found == HtmlPartsInPreOrder(payload) IN
      IF found = <<>>
      THEN html.t = "null"
      ELSE /\ html.t = "string"
           /\ html.v = Base64Decode(Head(found).data.v)

\* the first HTML body in pre-order lies two levels down, an HTML part with
\* another body follows one level down: the deeper one is returned
C20_Witness ==
  /\ program = "getEmailHtmlById"
  /\ pc = "done"
  /\ payload.mimeType = "multipart/alternative"
  /\ Len(payload.parts) = 2
  /\ payload.parts[1].mimeType = "multipart/alternative"
  /\ Len(payload.parts[1].parts) = 1
  /\ payload.parts[1].parts[1].mimeType = "text/html"
  /\ payload.parts[1].parts[1].data = Str("PHA-PC9wPg==")
  /\ payload.parts[2].mimeType = "text/html"
  /\ payload.parts[2].data = Str("PGI-PC9iPg==")
  /\ html = Str("<p></p>")

====
